---- MODULE Spec2Model ----
(***************************************************************************)
(* Model of input_files/count_extinction_grid.py: a script that opens the  *)
(* file EJK_G12_S20_LR.dat, reads its lines, skips the lines that start    *)
(* with '#', parses fields 0 and 1 of every other line as floats and       *)
(* counts the lines whose (l, b) lies strictly inside the box              *)
(* (-3.1, 3.1) x (-1.8, 1.8), then prints the count.                       *)
(*                                                                         *)
(* A line is a sequence of one-character strings.  A float is an exact     *)
(* decimal [n, d] standing for n / 10^d, or NaN, or a parse failure.       *)
(***************************************************************************)
EXTENDS Integers, Sequences, FiniteSets

VARIABLES exists, disk, run, out1, reordered, pc, handle, nread, lines, idx, count, err, stdout

vars == <<exists, disk, run, out1, reordered, pc, handle, nread, lines, idx, count, err, stdout>>

(* Longest input file of the model, in lines. *)
MaxLines == 3

----------------------------------------------------------------------------
(* Strings and floats *)

Whitespace == {" ", "\t", "\n"}

DigitSeq == <<"0", "1", "2", "3", "4", "5", "6", "7", "8", "9">>

Digits == {DigitSeq[i] : i \in 1..Len(DigitSeq)}

DigitVal(c) == (CHOOSE i \in 1..Len(DigitSeq) : DigitSeq[i] = c) - 1

RECURSIVE Pow10(_)
Pow10(k) == IF k = 0 THEN 1 ELSE 10 * Pow10(k - 1)

(* line.startswith("#") *)
StartsWithHash_never(line) == FALSE

StartsWithHash(line) == Len(line) >= 1 /\ line[1] = "#"

(* line.split(" "): cut at every single space; consecutive spaces give     *)
(* empty fields, and a line without a space is one field.                  *)
RECURSIVE SplitFrom(_, _, _)
SplitFrom(s, i, cur) ==
    IF i > Len(s) THEN <<cur>>
    ELSE IF s[i] = " " THEN <<cur>> \o SplitFrom(s, i + 1, <<>>)
    ELSE SplitFrom(s, i + 1, Append(cur, s[i]))

(* A split at every single space or tab. *)
RECURSIVE SplitBlankFrom(_, _, _)
SplitBlankFrom(s, i, cur) ==
    IF i > Len(s) THEN <<cur>>
    ELSE IF s[i] \in {" ", "\t"} THEN <<cur>> \o SplitBlankFrom(s, i + 1, <<>>)
    ELSE SplitBlankFrom(s, i + 1, Append(cur, s[i]))

Split_spaceOrTab(line) == SplitBlankFrom(line, 1, <<>>)

Split(line) == SplitFrom(line, 1, <<>>)

(* float() strips leading and trailing whitespace before it parses. *)
RECURSIVE LStrip(_)
LStrip(s) == IF s # <<>> /\ Head(s) \in Whitespace THEN LStrip(Tail(s)) ELSE s

RECURSIVE RStrip(_)
RStrip(s) ==
    IF s # <<>> /\ s[Len(s)] \in Whitespace THEN RStrip(SubSeq(s, 1, Len(s) - 1)) ELSE s

Strip(s) == RStrip(LStrip(s))

NotAFloat == [ok |-> FALSE, nan |-> FALSE, n |-> 0, d |-> 0]

NaN == [ok |-> TRUE, nan |-> TRUE, n |-> 0, d |-> 0]

Num(n, d) == [ok |-> TRUE, nan |-> FALSE, n |-> n, d |-> d]

(* The digits of s read as one integer, the decimal point left out. *)
RECURSIVE Mantissa(_, _)
Mantissa(s, acc) ==
    IF s = <<>> THEN acc
    ELSE IF Head(s) = "." THEN Mantissa(Tail(s), acc)
    ELSE Mantissa(Tail(s), 10 * acc + DigitVal(Head(s)))

DotAt(s) == IF \E i \in 1..Len(s) : s[i] = "."
            THEN CHOOSE i \in 1..Len(s) : s[i] = "."
            ELSE 0

(* An unsigned decimal: digits with at most one point and at least one digit. *)
IsDecimal(s) ==
    /\ \A i \in 1..Len(s) : s[i] \in Digits \cup {"."}
    /\ Cardinality({i \in 1..Len(s) : s[i] = "."}) <= 1
    /\ \E i \in 1..Len(s) : s[i] \in Digits

ParseUnsigned(s) ==
    IF s = <<"n", "a", "n">> THEN NaN
    ELSE IF ~IsDecimal(s) THEN NotAFloat
    ELSE Num(Mantissa(s, 0), IF DotAt(s) = 0 THEN 0 ELSE Len(s) - DotAt(s))

Negate(x) == [x EXCEPT !.n = 0 - x.n]

(* float(s) *)
ParseFloat(s) ==
    LET t == Strip(s) IN
    IF t = <<>> THEN NotAFloat
    ELSE IF Head(t) = "-" THEN
        (LET u == ParseUnsigned(Tail(t)) IN IF u.ok THEN Negate(u) ELSE u)
    ELSE IF Head(t) = "+" THEN ParseUnsigned(Tail(t))
    ELSE ParseUnsigned(t)

(* x < y on floats; every comparison with NaN is false. *)
Less(x, y) ==
    /\ ~x.nan
    /\ ~y.nan
    /\ x.n * Pow10(y.d) < y.n * Pow10(x.d)

LessEq(x, y) ==
    /\ ~x.nan
    /\ ~y.nan
    /\ x.n * Pow10(y.d) <= y.n * Pow10(x.d)

(* The literals of the test on l and b. *)
LMin == ParseFloat(<<"-", "3", ".", "1">>)

LMax == ParseFloat(<<"3", ".", "1">>)

BMin == ParseFloat(<<"-", "1", ".", "8">>)

BMax == ParseFloat(<<"1", ".", "8">>)

(* l>-3.1 and l<3.1 and (b>-1.8 and b<1.8) *)
InBox_inclusive(l, b) ==
    LessEq(LMin, l) /\ LessEq(l, LMax) /\ LessEq(BMin, b) /\ LessEq(b, BMax)

InBox(l, b) ==
    Less(LMin, l) /\ Less(l, LMax) /\ Less(BMin, b) /\ Less(b, BMax)

----------------------------------------------------------------------------
(* Input lines *)

RowInside == <<"1", ".", "0", " ", "1", ".", "0", " ", "x", "\n">>

RowInsideNeg == <<"-", "3", ".", "0", " ", "1", ".", "7", "\n">>

RowLMax == <<"3", ".", "1", " ", "0", ".", "0", "\n">>

RowLMin == <<"-", "3", ".", "1", " ", "9", "\n">>

RowBMax == <<"0", ".", "0", " ", "1", ".", "8", "\n">>

RowBMin == <<"9", " ", "-", "1", ".", "8", "\n">>

RowNaN == <<"n", "a", "n", " ", "0", "\n">>

CommentRow == <<"#", "1", ".", "0", " ", "1", ".", "0", "\n">>

CommentText == <<"#", " ", "x", "\n">>

OneField == <<"1", ".", "0", "\n">>

LeadingSpace == <<" ", "1", ".", "0", " ", "1", ".", "0", "\n">>

DoubleSpace == <<"1", ".", "0", " ", " ", "1", ".", "0", "\n">>

TabSeparated == <<"1", ".", "0", "\t", "1", ".", "0", "\n">>

BlankLine == <<"\n">>

NonNumeric == <<"1", ".", "0", " ", "x", "\n">>

SampleLines ==
    { RowInside, RowInsideNeg, RowLMax, RowLMin, RowBMax, RowBMin,
      RowNaN, CommentRow, CommentText, OneField, LeadingSpace, DoubleSpace,
      TabSeparated, BlankLine, NonNumeric }

Files == UNION {[1..k -> SampleLines] : k \in 0..MaxLines}

Orders(k) == {p \in [1..k -> 1..k] : \A i, j \in 1..k : p[i] = p[j] => i = j}

----------------------------------------------------------------------------
(* The script *)

ParseErrors == {"ValueError", "IndexError"}

(* What the process has left behind: the error that ended it, or its output. *)
Outcome == [err |-> err, stdout |-> stdout]

Init ==
    /\ exists \in BOOLEAN
    /\ disk \in Files
    /\ (~exists => disk = <<>>)
    /\ run = 1
    /\ out1 = [err |-> "none", stdout |-> <<>>]
    /\ reordered = FALSE
    /\ pc = "open"
    /\ handle = "none"
    /\ nread = 0
    /\ lines = <<>>
    /\ idx = 0
    /\ count = 0
    /\ err = "none"
    /\ stdout = <<>>

(* open("EJK_G12_S20_LR.dat","r"), entering the with block *)
Open_ignoreMissing ==
    /\ pc = "open"
    /\ handle' = IF exists THEN "open" ELSE "none"
    /\ pc' = IF exists THEN "readlines" ELSE "print"
    /\ UNCHANGED <<exists, disk, run, out1, reordered, nread, lines, idx, count, err, stdout>>

Open ==
    /\ pc = "open"
    /\ IF exists
       THEN /\ handle' = "open"
            /\ pc' = "readlines"
            /\ err' = err
       ELSE /\ handle' = handle
            /\ pc' = "crashed"
            /\ err' = "FileNotFoundError"
    /\ UNCHANGED <<exists, disk, run, out1, reordered, nread, lines, idx, count, stdout>>

(* file.readlines(): the whole file is read into a list before the loop *)
ReadLines_firstOnly ==
    /\ pc = "readlines"
    /\ lines' = SubSeq(disk, 1, IF Len(disk) = 0 THEN 0 ELSE 1)
    /\ nread' = Len(lines')
    /\ idx' = 0
    /\ pc' = "loop"
    /\ UNCHANGED <<exists, disk, run, out1, reordered, handle, count, err, stdout>>

ReadLines ==
    /\ pc = "readlines"
    /\ lines' = disk
    /\ nread' = Len(disk)
    /\ idx' = 0
    /\ pc' = "loop"
    /\ UNCHANGED <<exists, disk, run, out1, reordered, handle, count, err, stdout>>

(* The body of the for loop on one line: the counter after it and the      *)
(* exception it raises, if any.                                            *)
Body_skipBad(line, cnt) ==
    IF StartsWithHash(line) THEN [count |-> cnt, err |-> "none"]
    ELSE LET line_s == Split(line)
             l == ParseFloat(line_s[1])
             b == ParseFloat(line_s[2])
         IN  IF ~l.ok \/ Len(line_s) < 2 THEN [count |-> cnt, err |-> "none"]
             ELSE IF ~b.ok THEN [count |-> cnt, err |-> "none"]
             ELSE [count |-> IF InBox(l, b) THEN cnt + 1 ELSE cnt, err |-> "none"]

Body_countAll(line, cnt) ==
    IF StartsWithHash(line) THEN [count |-> cnt + 1, err |-> "none"]
    ELSE LET line_s == Split(line)
             l == ParseFloat(line_s[1])
             b == ParseFloat(line_s[2])
         IN  IF ~l.ok THEN [count |-> cnt, err |-> "ValueError"]
             ELSE IF Len(line_s) < 2 THEN [count |-> cnt, err |-> "IndexError"]
             ELSE IF ~b.ok THEN [count |-> cnt, err |-> "ValueError"]
             ELSE [count |-> IF InBox(l, b) THEN cnt + 1 ELSE cnt, err |-> "none"]

Body(line, cnt) ==
    IF StartsWithHash(line) THEN [count |-> cnt, err |-> "none"]
    ELSE LET line_s == Split(line)
             l == ParseFloat(line_s[1])
             b == ParseFloat(line_s[2])
         IN  IF ~l.ok THEN [count |-> cnt, err |-> "ValueError"]
             ELSE IF Len(line_s) < 2 THEN [count |-> cnt, err |-> "IndexError"]
             ELSE IF ~b.ok THEN [count |-> cnt, err |-> "ValueError"]
             ELSE [count |-> IF InBox(l, b) THEN cnt + 1 ELSE cnt, err |-> "none"]

(* One iteration of the for loop, on the next line of the list; an         *)
(* exception leaves the loop and the with block.                           *)
LoopStep_break ==
    /\ pc = "loop"
    /\ idx < Len(lines)
    /\ idx' = idx + 1
    /\ count' = Body(lines[idx + 1], count).count
    /\ err' = Body(lines[idx + 1], count).err
    /\ pc' = IF err' = "none" /\ ~StartsWithHash(lines[idx + 1]) THEN "loop" ELSE "exit_with"
    /\ UNCHANGED <<exists, disk, run, out1, reordered, handle, nread, lines, stdout>>

LoopStep ==
    /\ pc = "loop"
    /\ idx < Len(lines)
    /\ idx' = idx + 1
    /\ count' = Body(lines[idx + 1], count).count
    /\ err' = Body(lines[idx + 1], count).err
    /\ pc' = IF err' = "none" THEN "loop" ELSE "exit_with"
    /\ UNCHANGED <<exists, disk, run, out1, reordered, handle, nread, lines, stdout>>

(* The list is exhausted: the for loop ends and control leaves the with block *)
LoopEnd ==
    /\ pc = "loop"
    /\ idx = Len(lines)
    /\ pc' = "exit_with"
    /\ UNCHANGED <<exists, disk, run, out1, reordered, handle, nread, lines, idx, count, err, stdout>>

(* Leaving the with block closes the file, on the normal path and when an  *)
(* exception passes through; the exception then ends the process.          *)
WithExit_leakOnError ==
    /\ pc = "exit_with"
    /\ handle' = IF err = "none" THEN "closed" ELSE handle
    /\ pc' = IF err = "none" THEN "print" ELSE "crashed"
    /\ UNCHANGED <<exists, disk, run, out1, reordered, nread, lines, idx, count, err, stdout>>

WithExit ==
    /\ pc = "exit_with"
    /\ handle' = "closed"
    /\ pc' = IF err = "none" THEN "print" ELSE "crashed"
    /\ UNCHANGED <<exists, disk, run, out1, reordered, nread, lines, idx, count, err, stdout>>

(* print(f"There are {count} grid points within the JASMINE extended footprint") *)
PrintCount_lines ==
    /\ pc = "print"
    /\ stdout' = Append(stdout, Len(lines))
    /\ pc' = "done"
    /\ UNCHANGED <<exists, disk, run, out1, reordered, handle, nread, lines, idx, count, err>>

PrintCount ==
    /\ pc = "print"
    /\ stdout' = Append(stdout, count)
    /\ pc' = "done"
    /\ UNCHANGED <<exists, disk, run, out1, reordered, handle, nread, lines, idx, count, err>>

Terminated == pc \in {"done", "crashed"}

(* The script is run a second time, as a new process, on the same lines in *)
(* any order.                                                              *)
Rerun ==
    /\ Terminated
    /\ run = 1
    /\ \E p \in Orders(Len(disk)) : disk' = [i \in 1..Len(disk) |-> disk[p[i]]]
    /\ out1' = Outcome
    /\ reordered' = (disk' # disk)
    /\ run' = 2
    /\ pc' = "open"
    /\ handle' = "none"
    /\ nread' = 0
    /\ lines' = <<>>
    /\ idx' = 0
    /\ count' = 0
    /\ err' = "none"
    /\ stdout' = <<>>
    /\ UNCHANGED exists

Next ==
    \/ Open
    \/ ReadLines
    \/ LoopStep
    \/ LoopEnd
    \/ WithExit
    \/ PrintCount
    \/ Rerun

Spec == Init /\ [][Next]_vars

----------------------------------------------------------------------------
(* Properties *)

(* A line that does not start with '#'. *)
IsDataLine(line) == line = <<>> \/ line[1] # "#"

(* Fields 0 and 1 of the line exist and are floats. *)
FieldsParse(line) ==
    LET f == Split(line) IN Len(f) >= 2 /\ ParseFloat(f[1]).ok /\ ParseFloat(f[2]).ok

(* -lim/10 < x < lim/10, on the decimal x.n / 10^x.d *)
StrictlyWithin(x, lim) ==
    /\ ~x.nan
    /\ (0 - lim) * Pow10(x.d) < 10 * x.n
    /\ 10 * x.n < lim * Pow10(x.d)

(* x = lim/10 or x = -lim/10 *)
OnEdge(x, lim) ==
    /\ ~x.nan
    /\ (10 * x.n = lim * Pow10(x.d) \/ 10 * x.n = (0 - lim) * Pow10(x.d))

(* The input lines by kind, computed once. *)
ParseableLines == {ln \in SampleLines : FieldsParse(ln)}

(* -3.1 < l < 3.1 and -1.8 < b < 1.8 for fields 0 and 1 of the line *)
MatchingLines ==
    {ln \in ParseableLines :
        LET f == Split(ln) IN
        StrictlyWithin(ParseFloat(f[1]), 31) /\ StrictlyWithin(ParseFloat(f[2]), 18)}

BoundaryLines ==
    {ln \in ParseableLines :
        LET f == Split(ln) IN
        OnEdge(ParseFloat(f[1]), 31) \/ OnEdge(ParseFloat(f[2]), 18)}

Parseable(line) == line \in ParseableLines

RowMatches(line) == line \in MatchingLines

RowOnBoundary(line) == line \in BoundaryLines

AllParseable ==
    exists /\ \A i \in 1..Len(disk) : IsDataLine(disk[i]) => Parseable(disk[i])

HasBadLine ==
    exists /\ \E i \in 1..Len(disk) : IsDataLine(disk[i]) /\ ~Parseable(disk[i])

MatchingRows(f) ==
    Cardinality({i \in 1..Len(f) : IsDataLine(f[i]) /\ RowMatches(f[i])})

(* The loop is about to process, and this step processes, the line at idx + 1. *)
Processing == pc = "loop" /\ idx < Len(lines) /\ idx' = idx + 1

(* An upper bound on the steps the running process has left. *)
StepsLeft ==
    CASE pc = "open" -> Len(disk) + 5
      [] pc = "readlines" -> Len(disk) + 4
      [] pc = "loop" -> (Len(lines) - idx) + 3
      [] pc = "exit_with" -> 2
      [] pc = "print" -> 1
      [] OTHER -> 0

(* C1: when every non-comment line of the file has parseable fields 0 and  *)
(* 1, the run ends normally (no state of it is an abnormal end, the loop   *)
(* never runs past the list, and every step brings the print nearer) and   *)
(* the one number it prints is the number of lines that do not start with  *)
(* '#' and have -3.1 < l < 3.1 and -1.8 < b < 1.8; an empty file prints 0. *)
C1_CountIsExact ==
    /\ [](AllParseable =>
            /\ pc # "crashed"
            /\ err = "none"
            /\ idx <= Len(lines)
            /\ (pc = "done" => stdout = <<MatchingRows(disk)>>))
    /\ []((exists /\ disk = <<>> /\ pc = "done") => stdout = <<0>>)
    /\ [][(AllParseable /\ run' = run) => StepsLeft' < StepsLeft]_vars

C1_Witness ==
    /\ pc = "done"
    /\ stdout = <<1>>
    /\ Len(disk) >= 2
    /\ \E i \in 1..Len(disk) : disk[i] = RowLMax
    /\ \E i \in 1..Len(disk) : disk[i] = RowInsideNeg

(* C2: a data row with l exactly -3.1 or 3.1, or b exactly -1.8 or 1.8,    *)
(* never increments the counter whatever the other coordinate is; a row    *)
(* with l and b both strictly inside the box always increments it.         *)
C2_StrictBox ==
    [][(Processing /\ IsDataLine(lines[idx + 1]) /\ Parseable(lines[idx + 1])) =>
          /\ (RowOnBoundary(lines[idx + 1]) => count' = count)
          /\ (RowMatches(lines[idx + 1]) => count' = count + 1)]_vars

C2_Witness ==
    /\ pc = "loop"
    /\ idx = 2
    /\ lines[1] = RowInside
    /\ lines[2] \in {RowLMax, RowLMin, RowBMax, RowBMin}
    /\ count = 1

(* C3: when some non-comment line has fewer than 2 fields or a field 0 or  *)
(* 1 that is not a float, the run ends abnormally and nothing is ever      *)
(* printed, even if earlier lines had been counted: the loop never gets    *)
(* to the end of the list and is left only on a parse error.               *)
C3_NoPartialResult ==
    HasBadLine =>
        /\ stdout = <<>>
        /\ pc \notin {"print", "done"}
        /\ (pc = "loop" => (idx < Len(lines) /\ err = "none"))
        /\ (pc \in {"exit_with", "crashed"} => err \in ParseErrors)

C3_Witness ==
    /\ pc = "crashed"
    /\ err \in ParseErrors
    /\ count >= 1
    /\ stdout = <<>>

(* C4: a line that starts with '#' is skipped without being split or       *)
(* parsed: it raises no error and leaves the counter alone whatever the    *)
(* rest of it is, so a file made of comment lines only prints 0.           *)
C4_CommentsSkipped ==
    /\ [][(Processing /\ ~IsDataLine(lines[idx + 1])) =>
            (count' = count /\ err' = "none" /\ pc' = "loop")]_vars
    /\ []((exists /\ \A i \in 1..Len(disk) : ~IsDataLine(disk[i])) =>
            /\ pc # "crashed"
            /\ (pc = "done" => stdout = <<0>>))

C4_Witness ==
    /\ pc = "done"
    /\ stdout = <<0>>
    /\ Len(disk) >= 2
    /\ \A i \in 1..Len(disk) : ~IsDataLine(disk[i])
    /\ \E i \in 1..Len(disk) : disk[i] = CommentRow
    /\ \E i \in 1..Len(disk) : disk[i] = CommentText

(* C5: the count does not depend on the order of the lines: the run on a   *)
(* file whose lines have been permuted prints what the run on the original *)
(* file printed (a count, or nothing when the run ends abnormally).        *)
C5_OrderIndependent ==
    (run = 2 /\ Terminated) =>
        /\ stdout = out1.stdout
        /\ (err = "none") = (out1.err = "none")

C5_Witness ==
    /\ run = 2
    /\ reordered
    /\ pc = "done"
    /\ stdout = <<1>>
    /\ disk[1] \in {CommentRow, RowBMax}
    /\ disk[Len(disk)] = RowInside

(* C6: the file is released on every exit path: in every final state, after *)
(* a complete scan or after a parse error, the file that was opened is     *)
(* closed, and it is already closed when the count is printed.             *)
C6_FileClosed ==
    /\ Terminated => handle # "open"
    /\ (Terminated /\ exists) => handle = "closed"
    /\ pc \in {"print", "done"} => handle = "closed"

C6_Witness ==
    /\ pc = "crashed"
    /\ err \in ParseErrors
    /\ idx >= 2
    /\ handle = "closed"

(* C7: when the file does not exist or cannot be opened, the run ends      *)
(* abnormally without processing a line and without printing anything.     *)
C7_MissingFile ==
    ~exists =>
        /\ pc \in {"open", "crashed"}
        /\ (pc = "crashed" => err = "FileNotFoundError")
        /\ handle = "none"
        /\ nread = 0
        /\ idx = 0
        /\ stdout = <<>>

C7_Witness ==
    /\ ~exists
    /\ pc = "crashed"
    /\ err = "FileNotFoundError"

(* The non-comment lines among the first k lines of f. *)
DataLinesIn(f, k) == Cardinality({i \in 1..k : IsDataLine(f[i])})

(* C8: the counter starts at 0, every step of a run leaves it unchanged or *)
(* adds exactly 1 to it, so it never decreases, and it is never more than  *)
(* the number of non-comment lines processed so far.                       *)
C8_CounterSteps ==
    /\ [](pc \in {"open", "readlines"} => count = 0)
    /\ [](idx <= Len(lines) /\ count <= DataLinesIn(lines, idx))
    /\ [][run' = run => (count' = count \/ count' = count + 1)]_vars

C8_Witness ==
    /\ pc = "loop"
    /\ idx = 3
    /\ count = 2
    /\ DataLinesIn(lines, idx) = 2

(* C9 as stated: lines are read lazily, so the lines read from the file     *)
(* never exceed the lines processed by more than one, and after a parse    *)
(* error at line k no line after k has been read.                          *)
C9_LazyRead ==
    /\ nread <= idx + 1
    /\ (err \in ParseErrors => nread <= idx)

(* C9 amended: the lines are read eagerly, in one pass: the whole file is  *)
(* read into a list before the first line is processed, the list is then   *)
(* processed in file order, and after a parse error at line k no line      *)
(* after k has been processed, though every line has been read.            *)
C9_EagerRead ==
    /\ pc \in {"open", "readlines"} => (nread = 0 /\ idx = 0)
    /\ (handle # "none" /\ pc # "readlines") =>
            /\ nread = Len(disk)
            /\ lines = disk
            /\ idx <= nread
    /\ err \in ParseErrors =>
            /\ idx >= 1
            /\ IsDataLine(disk[idx]) /\ ~Parseable(disk[idx])
            /\ \A i \in 1..(idx - 1) : IsDataLine(disk[i]) => Parseable(disk[i])

C9_Witness ==
    /\ pc = "crashed"
    /\ err \in ParseErrors
    /\ idx = 1
    /\ nread >= 3

(* C10: the fields come from a split at every single space, so a            *)
(* non-comment line whose field 0 or 1 is then empty or not a number ends  *)
(* the run on a parse error; such a line is never counted and never        *)
(* skipped: a line that begins with a space, one with two spaces between   *)
(* l and b, one with a tab between l and b, a blank line.                  *)
C10_SingleSpaceSplit ==
    /\ [][(Processing /\ lines[idx + 1] \in
                {LeadingSpace, DoubleSpace, TabSeparated, BlankLine, NonNumeric}) =>
            (err' = "ValueError" /\ pc' = "exit_with" /\ count' = count)]_vars
    /\ []((exists /\ \E i \in 1..Len(disk) :
                disk[i] \in {LeadingSpace, DoubleSpace, TabSeparated, BlankLine, NonNumeric})
            => pc \notin {"print", "done"})

C10_Witness ==
    /\ pc = "crashed"
    /\ err = "ValueError"
    /\ idx = 2
    /\ lines[1] = RowInside
    /\ lines[2] \in {LeadingSpace, DoubleSpace, TabSeparated}
    /\ count = 1

====
